---- MODULE Spec2Model ----
(***************************************************************************)
(* proHeader, a VS Code extension that inserts a templated comment header  *)
(* at the top of a source file.  Two source variants are modelled: the     *)
(* current extension (src/unnamed/part_001) and the legacy one             *)
(* (src/extension.js).  JavaScript strings are sequences of one-character  *)
(* strings, so that the builders, the path helpers and the regular         *)
(* expressions of hasHeaderAtTop are computed character by character.      *)
(***************************************************************************)
EXTENDS Integers, Sequences, FiniteSets, TLC

(***************************************************************************)
(* JavaScript values and string primitives                                 *)
(***************************************************************************)

\* The value `undefined` (a cancelled input box); no text contains this token.
Undefined == <<"undefined">>

\* JS truthiness of a string-or-undefined value: x || y picks y for "" and undefined.
Truthy(x) == x /= Undefined /\ x /= <<>>

Or(x, y) == IF Truthy(x) THEN x ELSE y

LowerLetters == <<"a","b","c","d","e","f","g","h","i","j","k","l","m","n","o","p","q","r","s","t","u","v","w","x","y","z">>

UpperLetters == <<"A","B","C","D","E","F","G","H","I","J","K","L","M","N","O","P","Q","R","S","T","U","V","W","X","Y","Z">>

Digits == <<"0","1","2","3","4","5","6","7","8","9">>

InSeq(c, s) == \E i \in 1..Len(s) : s[i] = c

IndexIn(c, s) == CHOOSE i \in 1..Len(s) : s[i] = c

\* [a-zA-Z0-9]
IsAlnum(c) == InSeq(c, LowerLetters) \/ InSeq(c, UpperLetters) \/ InSeq(c, Digits)

\* \s, and the characters String.prototype.trim removes
IsSpace(c) == c \in {" ", "\n", "\t", "\r"}

toLowerCaseChar(c) == IF InSeq(c, UpperLetters) THEN LowerLetters[IndexIn(c, UpperLetters)] ELSE c

toUpperCaseChar(c) == IF InSeq(c, LowerLetters) THEN UpperLetters[IndexIn(c, LowerLetters)] ELSE c

toLowerCase(s) == [i \in 1..Len(s) |-> toLowerCaseChar(s[i])]

toUpperCase(s) == [i \in 1..Len(s) |-> toUpperCaseChar(s[i])]

startsWith(s, p) == Len(p) <= Len(s) /\ SubSeq(s, 1, Len(p)) = p

endsWith(s, p) == Len(p) <= Len(s) /\ SubSeq(s, Len(s) - Len(p) + 1, Len(s)) = p

\* s.indexOf(p) >= 0
Contains(s, p) == \E i \in 1..(Len(s) - Len(p) + 1) : SubSeq(s, i, i + Len(p) - 1) = p

\* s.trim()
trim(s) ==
    LET keep == {i \in 1..Len(s) : ~IsSpace(s[i])}
    IN  IF keep = {} THEN <<>>
        ELSE SubSeq(s, CHOOSE i \in keep : \A j \in keep : i <= j,
                       CHOOSE i \in keep : \A j \in keep : j <= i)

\* s.split('\n'): the pieces between the newlines, in order
split(s) ==
    LET nl == {i \in 1..Len(s) : s[i] = "\n"}
        n == Cardinality(nl)
        pos(k) == CHOOSE p \in nl : Cardinality({q \in nl : q < p}) = k - 1
    IN  [k \in 1..(n + 1) |->
            SubSeq(s, IF k = 1 THEN 1 ELSE pos(k - 1) + 1,
                      IF k = n + 1 THEN Len(s) ELSE pos(k) - 1)]

\* lines.join(sep)
RECURSIVE join(_, _)
join(lines, sep) ==
    IF lines = <<>> THEN <<>>
    ELSE IF Len(lines) = 1 THEN lines[1]
    ELSE lines[1] \o sep \o join(Tail(lines), sep)

\* lines.slice(0, n)
slice0(lines, n) == SubSeq(lines, 1, IF Len(lines) < n THEN Len(lines) ELSE n)

NL == <<"\n">>

\* String(n) for a natural number
RECURSIVE String(_)
String(n) == IF n < 10 THEN <<Digits[n + 1]>> ELSE String(n \div 10) \o <<Digits[(n % 10) + 1]>>

\* s.padStart(2, '0')
padStart2(s) == IF Len(s) >= 2 THEN s ELSE <<"0">> \o s

(***************************************************************************)
(* path.extname and path.basename (POSIX), as the entry points call them   *)
(***************************************************************************)

\* the last path component
lastComponent(p) ==
    LET slashes == {i \in 1..Len(p) : p[i] = "/"}
    IN  IF slashes = {} THEN p
        ELSE SubSeq(p, (CHOOSE i \in slashes : \A j \in slashes : j <= i) + 1, Len(p))

\* path.extname(p): from the last '.' of the last component, '' when there is
\* none or when it is the component's first character
extname(p) ==
    LET b == lastComponent(p)
        dots == {i \in 1..Len(b) : b[i] = "."}
        last == CHOOSE i \in dots : \A j \in dots : j <= i
    IN  IF dots = {} \/ last = 1 THEN <<>> ELSE SubSeq(b, last, Len(b))

\* path.basename(p, ext): the last component, with the suffix ext removed when
\* the component ends with exactly ext (the comparison is case-sensitive) and is
\* longer than it
basename(p, ext) ==
    LET b == lastComponent(p)
    IN  IF ext /= <<>> /\ endsWith(b, ext) /\ Len(b) > Len(ext)
        THEN SubSeq(b, 1, Len(b) - Len(ext))
        ELSE b

(***************************************************************************)
(* Pure helpers of the current extension (src/unnamed/part_001)            *)
(***************************************************************************)

\* formatDate(d): d.getFullYear(), d.getMonth() (0-based) and d.getDate()
formatDate(d) ==
    String(d.year) \o <<"-">> \o padStart2(String(d.month + 1)) \o <<"-">> \o padStart2(String(d.date))

\* the pushes that build `inner`
commentInner(filename, description, author, date) ==
    <<<<"=","=","=","=","=","=","=","=","=","=","=","=","=","=","=","=","=","=","=","=","=","=","=","=","=","=","=","=","=","=","=","=","=","=","=","=","=","=","=","=","=","=","=","=","=","=">>>>
    \o <<<<" "," "," "," "," "," "," "," "," "," "," "," "," "," "," "," ">> \o filename>>
    \o (IF Truthy(description) THEN <<<<" ">> \o description>> ELSE <<>>)
    \o (IF Truthy(author) THEN <<<<" ","A","u","t","h","o","r",":"," ">> \o author>> ELSE <<>>)
    \o (IF Truthy(date) THEN <<<<" ","D","a","t","e",":"," ">> \o date>> ELSE <<>>)
    \o <<<<"=","=","=","=","=","=","=","=","=","=","=","=","=","=","=","=","=","=","=","=","=","=","=","=","=","=","=","=","=","=","=","=","=","=","=","=","=","=","=","=","=","=","=","=","=">>>>

blockLines(inner) ==
    <<<<"/","*","*">> \o inner[1]>>
    \o [i \in 1..(Len(inner) - 2) |-> <<" ","*"," ">> \o inner[i + 1]]
    \o <<<<" ","*">> \o inner[Len(inner)] \o <<"*","*","/">>>>

\* makeCommentBlock(filename, description, author, date, style); any style other
\* than 'hash' and 'cpp' falls back to 'block'
makeCommentBlock(filename, description, author, date, style) ==
    LET inner == commentInner(filename, description, author, date)
    IN  IF style \in {"hash", "cpp"}
        THEN LET prefix == IF style = "hash" THEN <<"#"," ">> ELSE <<"/","/"," ">>
             IN  join([i \in 1..Len(inner) |-> prefix \o inner[i]], NL) \o NL \o NL
        ELSE join(blockLines(inner), NL) \o NL \o NL

detectStyle(extNoDot, basenameWithExt) ==
    LET b == toLowerCase(basenameWithExt)
    IN  IF extNoDot = <<"p","y">> THEN [style |-> "hash", shebang |-> TRUE]
        ELSE IF extNoDot = <<>> /\ b = <<"m","a","k","e","f","i","l","e">> THEN [style |-> "hash", shebang |-> FALSE]
        ELSE [style |-> "block", shebang |-> FALSE]

\* makeGuardMacro(basename, ext): replace(/[^a-zA-Z0-9]/g, '_').toUpperCase() + '_'
makeGuardMacro(base, ext) ==
    LET joined == base \o <<"_">> \o ext
        raw == toUpperCase([i \in 1..Len(joined) |-> IF IsAlnum(joined[i]) THEN joined[i] ELSE "_"])
    IN  raw \o <<"_">>

\* basename.split(/[^a-zA-Z0-9]+/).filter(Boolean): the maximal alphanumeric runs
RECURSIVE alnumRuns(_, _, _)
alnumRuns(s, i, cur) ==
    IF i > Len(s) THEN (IF cur = <<>> THEN <<>> ELSE <<cur>>)
    ELSE IF IsAlnum(s[i]) THEN alnumRuns(s, i + 1, Append(cur, s[i]))
    ELSE (IF cur = <<>> THEN <<>> ELSE <<cur>>) \o alnumRuns(s, i + 1, <<>>)

\* toClassName(basename): each run with its first character upper-cased, joined
toClassName(base) ==
    LET runs == alnumRuns(base, 1, <<>>)
    IN  join([i \in 1..Len(runs) |-> <<toUpperCaseChar(runs[i][1])>> \o Tail(runs[i])], <<>>)

\* /={3,}/.test(s)
hasEqRun(s) == Contains(s, <<"=","=","=">>)

\* the first position at or before i that is not white space (0 when there is none)
RECURSIVE skipSpaceBack(_, _)
skipSpaceBack(s, i) == IF i >= 1 /\ IsSpace(s[i]) THEN skipSpaceBack(s, i - 1) ELSE i

\* /#+\s*={3,}/.test(s): a run of '=' reached from a '#' over white space only
hasHashEqRun(s) ==
    \E k \in 1..(Len(s) - 2) :
        /\ SubSeq(s, k, k + 2) = <<"=","=","=">>
        /\ LET p == skipSpaceBack(s, k - 1) IN p >= 1 /\ s[p] = "#"

\* /^#\s*={3,}/m.test(s): the same with the '#' first on its line
hasLineHashEqRun(s) ==
    \E k \in 1..(Len(s) - 2) :
        /\ SubSeq(s, k, k + 2) = <<"=","=","=">>
        /\ LET p == skipSpaceBack(s, k - 1)
           IN  p >= 1 /\ s[p] = "#" /\ (p = 1 \/ s[p - 1] = "\n")

\* a variant that knows the block signature only
hasHeaderAtTop_blockOnly(text) ==
    IF text = <<>> \/ text = Undefined THEN FALSE
    ELSE Contains(join(slice0(split(text), 8), NL), <<"/","*","*">>)

hasHeaderAtTop(text) ==
    IF text = <<>> \/ text = Undefined THEN FALSE
    ELSE LET head == join(slice0(split(text), 8), NL)
             rest == join(slice0(split(text), 10), NL)
         IN  \/ Contains(head, <<"/","*","*">>)
             \/ startsWith(trim(head), <<"#","!">>) /\ (hasEqRun(rest) \/ hasHashEqRun(rest))
             \/ hasEqRun(head)
             \/ hasLineHashEqRun(head)

\* text.trim().length > 0
nonEmpty(text) == Len(trim(text)) > 0

(***************************************************************************)
(* Per-extension content (the if/else chain on extNoDot)                   *)
(***************************************************************************)

SHEBANG == <<"#","!","/","u","s","r","/","b","i","n","/","e","n","v"," ","p","y","t","h","o","n","3","\n">>

\* `#ifndef M\n#define M\n\n\n#endif /* !M */\n`
guardBlock(macro) ==
    <<"#","i","f","n","d","e","f"," ">> \o macro \o <<"\n","#","d","e","f","i","n","e"," ">> \o macro \o <<"\n","\n","\n","#","e","n","d","i","f"," ","/","*"," ","!">> \o macro \o <<" ","*","/","\n">>

\* the classBlock pushes of the hpp branch
classBlock(className) ==
    << <<"c","l","a","s","s"," ">> \o className \o <<" ","{">>,
       <<" "," "," "," ","p","u","b","l","i","c",":">>,
       <<" "," "," "," "," "," "," "," ">> \o className \o <<"(",")",";">>,
       <<" "," "," "," "," "," "," "," ","~">> \o className \o <<"(",")",";">>,
       <<>>,
       <<" "," "," "," ","p","r","o","t","e","c","t","e","d",":">>,
       <<" "," "," "," ","p","r","i","v","a","t","e",":">>,
       <<"}",";">> >>

guardedClass(macro, className) ==
    <<"#","i","f","n","d","e","f"," ">> \o macro \o <<"\n","#","d","e","f","i","n","e"," ">> \o macro \o <<"\n","\n">>
    \o join(classBlock(className), NL)
    \o <<"\n","\n","#","e","n","d","i","f"," ","/","*"," ","!">> \o macro \o <<" ","*","/","\n">>

\* the impl pushes of the cpp branch, joined with '\n'
implBlock(base) ==
    LET className == toClassName(base)
        headerFile == base \o <<".","h","p","p">>
    IN  join(<< <<"#","i","n","c","l","u","d","e"," ","\"">> \o headerFile \o <<"\"","\n">>,
                className \o <<":",":">> \o className \o <<"(",")">>,
                <<"{">>,
                <<"}">>,
                <<>>,
                className \o <<":",":","~">> \o className \o <<"(",")">>,
                <<"{">>,
                <<"}">>,
                <<>> >>, NL)

\* what the extension branch appends to the comment block; guard is the answer
\* of the include-guard prompt (Undefined where no prompt is shown)
extensionBody(extNoDot, base, guard) ==
    IF extNoDot = <<"h">> THEN guardBlock(Or(guard, makeGuardMacro(base, <<"H">>)))
    ELSE IF extNoDot = <<"h","p","p">> THEN guardedClass(Or(guard, makeGuardMacro(base, <<"H","P","P">>)), toClassName(base))
    ELSE IF extNoDot = <<"c","p","p">> THEN implBlock(base)
    ELSE <<>>

\* the branches that show the include-guard prompt (insertHeader only)
asksGuard(extNoDot) == extNoDot \in {<<"h">>, <<"h","p","p">>}

\* a variant that puts the interpreter line after the text instead of before it
withShebang_after(detected, toInsert) == IF detected.shebang THEN toInsert \o SHEBANG ELSE toInsert

\* if (detected && detected.shebang) toInsert = '#!/usr/bin/env python3\n' + toInsert
withShebang(detected, toInsert) == IF detected.shebang THEN SHEBANG \o toInsert ELSE toInsert

\* FileIdentity of a path, as each entry point derives it
extOf(filePath) == toLowerCase(extname(filePath))

basenameWithExtOf(filePath) == basename(filePath, <<>>)

basenameOf(filePath) == basename(filePath, extOf(filePath))

extNoDotOf(filePath) ==
    LET ext == extOf(filePath) IN IF startsWith(ext, <<".">>) THEN Tail(ext) ELSE ext

\* config.get('defaultAuthor') || process.env.GIT_AUTHOR_NAME || process.env.USER || ''
authorChain(cfg, gitAuthor, userName) == Or(cfg, Or(gitAuthor, Or(userName, <<>>)))

\* a variant without the truthiness test: a cancelled prompt is persisted too
persistNeeded_anyInput(authorInput, cfg) == authorInput /= cfg

\* authorInput && authorInput !== config.get('defaultAuthor')
persistNeeded(authorInput, cfg) == Truthy(authorInput) /\ authorInput /= cfg

(***************************************************************************)
(* Pure helpers of the legacy extension (src/extension.js)                 *)
(***************************************************************************)

legacy_makeCommentBlock(filename, description, author, date) ==
    join(  <<<<"/","*","*","=","=","=","=","=","=","=","=","=","=","=","=","=","=","=","=","=","=","=","=","=","=","=","=","=","=","=","=","=","=","=","=","=","=","=","=","=","=","=","=","=","=","=","=","=","=">>>>
        \o <<<<" ","*"," "," "," "," "," "," "," "," "," "," "," "," "," "," "," "," ">> \o filename>>
        \o (IF Truthy(description) THEN <<<<" ","*"," "," ">> \o description>> ELSE <<>>)
        \o (IF Truthy(author) THEN <<<<" ","*"," "," ","A","u","t","h","o","r",":"," ">> \o author>> ELSE <<>>)
        \o (IF Truthy(date) THEN <<<<" ","*"," "," ","D","a","t","e",":"," ">> \o date>> ELSE <<>>)
        \o <<<<" ","*","=","=","=","=","=","=","=","=","=","=","=","=","=","=","=","=","=","=","=","=","=","=","=","=","=","=","=","=","=","=","=","=","=","=","=","=","=","=","=","=","=","=","=","=","=","*","*","/">>>>, NL) \o NL \o NL

\* process.env.GIT_AUTHOR_NAME || process.env.USER || ''
legacy_defaultAuthor(gitAuthor, userName) == Or(gitAuthor, Or(userName, <<>>))

\* the else branch of the legacy chain: any other extension is not supported
legacy_supported(extNoDot) == extNoDot \in {<<"c">>, <<"h">>, <<"h","p","p">>, <<"c","p","p">>}

(***************************************************************************)
(* Bounds and input sets                                                   *)
(***************************************************************************)

\* entry-point invocations in one run (commands, direct calls, created files)
MaxInvocations == 2

\* file-creation events in one run
MaxEvents == 1

\* files carried by one file-creation event
MaxBatch == 2

\* edits the user makes to a document in one run
MaxUserEdits == 1

\* documents of the workspace (doc.fileName)
AllFiles ==
    { <<"/","w","/","k",".","c">>, <<"/","w","/","g",".","h">>, <<"/","w","/","G","a","m","e",".","h","p","p">>, <<"/","w","/","G","a","m","e",".","c","p","p">>, <<"/","w","/","G","a","m","e",".","H","P","P">>,
      <<"/","w","/","s",".","p","y">>, <<"/","w","/","M","a","k","e","f","i","l","e">>, <<"/","w","/","n",".","t","x","t">> }

\* the documents of the runs in which invocations overlap
FewFiles == { <<"/","w","/","g",".","h">>, <<"/","w","/","s",".","p","y">> }

\* what a document may hold before a header is inserted: nothing, code, a header
PlainText == <<"i","n","t"," ","x",";","\n">>

HeaderText == <<"/","*","*","=","=","=","\n"," ","*"," ","o","l","d","\n"," ","*","/","\n">>

UserTexts == { <<>>, PlainText, HeaderText }

\* Answers to the prompts.  Author: cancelled, empty, a new name, the stored name.
AllAnswers ==
    [ authors      |-> { Undefined, <<>>, <<"n">>, <<"s">> },
      descriptions |-> { Undefined, <<>>, <<"d">> },
      guards       |-> { Undefined, <<"X","_","H">> } ]

\* the answers of the runs in which invocations overlap
FewAnswers ==
    [ authors      |-> { Undefined, <<"n">> },
      descriptions |-> { Undefined },
      guards       |-> { Undefined } ]

\* the answers of the runs in which the command is invoked again and again:
\* each prompt cancelled or answered, the author prompt also left empty
SeqAnswers ==
    [ authors      |-> { Undefined, <<>>, <<"n">> },
      descriptions |-> { Undefined, <<"d">> },
      guards       |-> { Undefined, <<"X","_","H">> } ]

\* the stored 'defaultAuthor' setting and the two environment variables
StoredAuthors == { <<>>, <<"s">> }

GitAuthors == { <<>>, <<"g">> }

UserNames == { <<>>, <<"u">> }

\* new Date(): getMonth() is 0-based
AllDates == { [year |-> 2026, month |-> 0, date |-> 5], [year |-> 2025, month |-> 9, date |-> 22] }

\* the date of the runs in which invocations overlap
OneDate == { [year |-> 2026, month |-> 0, date |-> 5] }

\* how an awaited host call (openTextDocument, editor.edit, applyEdit) ends
Outcomes == { "ok", "throw" }

HeaderExistsMsg == "A header already exists in this file."

InsertedMsg == "Pro header inserted."

NoEditorMsg == "No active editor - open a file to insert a header."

\* `Extension ${extNoDot} is not supported by proHeader.` (legacy extension)
UnsupportedMsg == "Extension is not supported by proHeader."

(***************************************************************************)
(* State                                                                   *)
(***************************************************************************)

VARIABLES
    text,           \* document path -> its text (doc.getText())
    stored,         \* the 'defaultAuthor' setting of configuration 'proheader'
    env,            \* process.env: GIT_AUTHOR_NAME and USER
    now,            \* the clock's date
    activeEditor,   \* vscode.window.activeTextEditor: a path, or NoEditor
    invs,           \* the entry-point invocations, in the order they started
    handlers,       \* the onDidCreateFiles callbacks, in the order they started
    edits           \* user edits made so far

vars == <<text, stored, env, now, activeEditor, invs, handlers, edits>>

\* activeTextEditor is undefined
NoEditor == <<>>

\* An invocation of an entry point: its locals, where it is suspended (pc), and
\* what it has shown and done so far.
Invocation(kind, doc, handler) ==
    [ kind        |-> kind,          \* "insertHeader", "interactive", "auto", "legacy"
      doc         |-> doc,
      handler     |-> handler,       \* the onDidCreateFiles callback awaiting it, or 0
      pc          |-> "start",
      entryHeader |-> IF doc = NoEditor THEN FALSE ELSE hasHeaderAtTop(text[doc]),
      cfg         |-> <<>>,          \* config.get('defaultAuthor') of the snapshot
      savedAuthor |-> <<>>,
      authorInput |-> Undefined,
      description |-> Undefined,
      guard       |-> Undefined,     \* the answer of the include-guard prompt
      toInsert    |-> <<>>,
      inserted    |-> FALSE,         \* the insertion was applied
      overHeader  |-> FALSE,         \* ... onto a text that had a header
      updated     |-> FALSE,         \* config.update was called
      prompts     |-> 0,             \* input boxes shown
      abort       |-> "none",        \* "header", "nonempty", "noeditor", "unsupported"
      msgs        |-> {},            \* notifications shown to the user
      logged      |-> FALSE,         \* console.error in a catch
      result      |-> "pending" ]    \* "returned", or "rejected" (exception to the host)

returned(r) == [r EXCEPT !.result = "returned", !.pc = "done"]

\* the catch blocks: autoInsertHeaderForDocument and interactiveInsertForCreatedDocument
\* wrap their body in try/catch; insertHeader does not
thrown(r) ==
    IF r.kind \in {"auto", "interactive"}
    THEN returned([r EXCEPT !.logged = TRUE])
    ELSE [r EXCEPT !.result = "rejected", !.pc = "done"]

\* await editor.edit(...) / await vscode.workspace.applyEdit(edit): the host
\* applies the insertion at Position(0, 0) to the text as it is when the call is
\* made, or the call throws; the function resumes in a later step
editCall(r, outcome) ==
    IF outcome = "ok"
    THEN [r EXCEPT !.inserted = TRUE, !.overHeader = hasHeaderAtTop(text[r.doc]), !.pc = "edit"]
    ELSE thrown(r)

\* the catch inside the for loop of the onDidCreateFiles callback
nextFile(hr) ==
    LET done == [hr EXCEPT !.log = Append(@, [ev |-> "end", i |-> hr.idx])]
    IN  IF hr.idx < Len(hr.files)
        THEN [done EXCEPT !.idx = @ + 1, !.pc = "open",
                          !.log = Append(@, [ev |-> "begin", i |-> hr.idx + 1])]
        ELSE [done EXCEPT !.pc = "done"]

\* a variant with the try/catch around the loop: the first failure ends it
onOpenFailed_stop(hr) == [hr EXCEPT !.failed = @ \cup {hr.idx}, !.pc = "done"]

\* catch (err) { console.error(...) } inside the loop: go on with the next file
onOpenFailed(hr) == nextFile([hr EXCEPT !.failed = @ \cup {hr.idx}])

\* n more invocations may start: at most MaxInvocations in a run, and in the
\* runs of a single invocation only as the first thing that happens
\* files of the callbacks still to be opened
RECURSIVE pendingFiles(_)
pendingFiles(h) ==
    IF h = 0 THEN 0
    ELSE pendingFiles(h - 1)
         + (IF handlers[h].pc = "open" THEN Len(handlers[h].files) - handlers[h].idx + 1
            ELSE IF handlers[h].pc = "run" THEN Len(handlers[h].files) - handlers[h].idx
            ELSE 0)

CanStart(single, n) ==
    IF single THEN invs = <<>> /\ handlers = <<>> /\ n <= 1
    ELSE Len(invs) + pendingFiles(Len(handlers)) + n <= MaxInvocations

\* the state after invocation i took a step to r: the insertion reaches the
\* document, and a callback awaiting a finished invocation goes on with its loop
Step(i, r) ==
    /\ invs' = [invs EXCEPT ![i] = r]
    /\ text' = IF r.inserted /\ ~invs[i].inserted
               THEN [text EXCEPT ![r.doc] = r.toInsert \o @]
               ELSE text
    /\ handlers' = IF r.pc = "done" /\ r.handler /= 0
                   THEN [handlers EXCEPT ![r.handler] = nextFile(@)]
                   ELSE handlers

\* a new invocation, run up to its first await (or to its return)
Spawn(r) ==
    /\ invs' = Append(invs, r)
    /\ text' = IF r.inserted THEN [text EXCEPT ![r.doc] = r.toInsert \o @] ELSE text

(***************************************************************************)
(* insertHeader (src/unnamed/part_001), the 'proheader.insertHeader' command *)
(***************************************************************************)

\* up to the first await: the author prompt
insertHeader(single) ==
    /\ CanStart(single, 1)
    /\ LET r == Invocation("insertHeader", activeEditor, 0)
       IN  IF activeEditor = NoEditor
           THEN Spawn(returned([r EXCEPT !.msgs = {NoEditorMsg}, !.abort = "noeditor"]))
           ELSE Spawn([r EXCEPT !.cfg = stored,
                                !.savedAuthor = authorChain(stored, env.GIT_AUTHOR_NAME, env.USER),
                                !.prompts = 1,
                                !.pc = "author"])
    /\ UNCHANGED <<stored, env, now, activeEditor, handlers, edits>>

\* the author prompt resolves; the description prompt is shown
insertHeader_author(i, answer) ==
    /\ invs[i].kind = "insertHeader" /\ invs[i].pc = "author"
    /\ Step(i, [invs[i] EXCEPT !.authorInput = answer, !.prompts = @ + 1, !.pc = "description"])
    /\ UNCHANGED <<stored, env, now, activeEditor, edits>>

\* lines 319-336: the shebang, the existing-header check, the insertion
insertHeader_finish(r, guard, outcome) ==
    LET extNoDot == extNoDotOf(r.doc)
        detected == detectStyle(extNoDot, basenameWithExtOf(r.doc))
        r1 == [r EXCEPT !.toInsert =
                 withShebang(detected, r.toInsert \o extensionBody(extNoDot, basenameOf(r.doc), guard))]
    IN  IF hasHeaderAtTop(text[r.doc])
        THEN returned([r1 EXCEPT !.msgs = @ \cup {HeaderExistsMsg}, !.abort = "header"])
        ELSE editCall(r1, outcome)

\* the description prompt resolves: the comment block is built, then either the
\* include-guard prompt is shown (h, hpp) or the function runs on to the insertion
insertHeader_description(i, answer, outcome) ==
    /\ invs[i].kind = "insertHeader" /\ invs[i].pc = "description"
    /\ LET r == invs[i]
           extNoDot == extNoDotOf(r.doc)
           detected == detectStyle(extNoDot, basenameWithExtOf(r.doc))
           comment == makeCommentBlock(basenameWithExtOf(r.doc), answer,
                                       Or(r.authorInput, r.savedAuthor), formatDate(now), detected.style)
           r1 == [r EXCEPT !.description = answer, !.toInsert = comment]
       IN  IF asksGuard(extNoDot)
           THEN Step(i, [r1 EXCEPT !.prompts = @ + 1, !.pc = "guard"])
           ELSE Step(i, insertHeader_finish(r1, Undefined, outcome))
    /\ UNCHANGED <<stored, env, now, activeEditor, edits>>

\* the include-guard prompt resolves
insertHeader_guard(i, answer, outcome) ==
    /\ invs[i].kind = "insertHeader" /\ invs[i].pc = "guard"
    /\ Step(i, insertHeader_finish([invs[i] EXCEPT !.guard = answer], answer, outcome))
    /\ UNCHANGED <<stored, env, now, activeEditor, edits>>

\* editor.edit has resolved: persist the author if the user entered a new one
insertHeader_edited(i) ==
    /\ invs[i].kind = "insertHeader" /\ invs[i].pc = "edit"
    /\ IF persistNeeded(invs[i].authorInput, invs[i].cfg)
       THEN /\ stored' = invs[i].authorInput
            /\ Step(i, [invs[i] EXCEPT !.updated = TRUE, !.pc = "update"])
       ELSE /\ UNCHANGED stored
            /\ Step(i, returned([invs[i] EXCEPT !.msgs = @ \cup {InsertedMsg}]))
    /\ UNCHANGED <<env, now, activeEditor, edits>>

\* config.update has resolved
insertHeader_updated(i) ==
    /\ invs[i].kind = "insertHeader" /\ invs[i].pc = "update"
    /\ Step(i, returned([invs[i] EXCEPT !.msgs = @ \cup {InsertedMsg}]))
    /\ UNCHANGED <<stored, env, now, activeEditor, edits>>

(***************************************************************************)
(* interactiveInsertForCreatedDocument and the onDidCreateFiles callback   *)
(***************************************************************************)

\* lines 150-167: up to the author prompt, or the return on a non-empty document
interactiveInsertForCreatedDocument(doc, h) ==
    LET r == Invocation("interactive", doc, h)
    IN  IF nonEmpty(text[doc])
        THEN returned([r EXCEPT !.abort = IF hasHeaderAtTop(text[doc]) THEN "header" ELSE "nonempty"])
        ELSE [r EXCEPT !.cfg = stored,
                       !.savedAuthor = authorChain(stored, env.GIT_AUTHOR_NAME, env.USER),
                       !.prompts = 1,
                       !.pc = "author"]

\* a file-creation event arrives: the callback starts its loop and awaits
\* openTextDocument for the first file
onDidCreateFiles(single, files) ==
    /\ CanStart(single, Len(files))
    /\ Len(handlers) < MaxEvents
    /\ Len(files) <= MaxBatch
    /\ handlers' = Append(handlers,
          [ files  |-> files,
            idx    |-> 1,
            pc     |-> IF files = <<>> THEN "done" ELSE "open",
            failed |-> {},
            log    |-> IF files = <<>> THEN <<>> ELSE <<[ev |-> "begin", i |-> 1]>> ])
    /\ UNCHANGED <<text, stored, env, now, activeEditor, invs, edits>>

\* openTextDocument resolves (the interactive insertion starts) or rejects
openTextDocument(h, outcome) ==
    /\ handlers[h].pc = "open"
    /\ IF outcome = "ok"
       THEN LET r == interactiveInsertForCreatedDocument(handlers[h].files[handlers[h].idx], h)
            IN  /\ invs' = Append(invs, r)
                /\ handlers' = [handlers EXCEPT ![h] =
                                  IF r.pc = "done" THEN nextFile(@) ELSE [@ EXCEPT !.pc = "run"]]
       ELSE /\ handlers' = [handlers EXCEPT ![h] = onOpenFailed(@)]
            /\ UNCHANGED invs
    /\ UNCHANGED <<text, stored, env, now, activeEditor, edits>>

interactive_author(i, answer) ==
    /\ invs[i].kind = "interactive" /\ invs[i].pc = "author"
    /\ Step(i, [invs[i] EXCEPT !.authorInput = answer, !.prompts = @ + 1, !.pc = "description"])
    /\ UNCHANGED <<stored, env, now, activeEditor, edits>>

\* lines 98-133 and 176-210: the non-interactive extension branches and the shebang
createdText(doc, description, author) ==
    LET extNoDot == extNoDotOf(doc)
        detected == detectStyle(extNoDot, basenameWithExtOf(doc))
    IN  withShebang(detected,
            makeCommentBlock(basenameWithExtOf(doc), description, author, formatDate(now), detected.style)
            \o extensionBody(extNoDot, basenameOf(doc), Undefined))

\* the description prompt resolves: the text is built and inserted
interactive_description(i, answer, outcome) ==
    /\ invs[i].kind = "interactive" /\ invs[i].pc = "description"
    /\ LET r == invs[i]
           author == Or(r.authorInput, r.savedAuthor)
       IN  Step(i, editCall([r EXCEPT !.description = answer,
                                      !.toInsert = createdText(r.doc, Or(answer, <<>>), Or(author, r.savedAuthor))],
                            outcome))
    /\ UNCHANGED <<stored, env, now, activeEditor, edits>>

\* applyEdit has resolved: persist the author if the user entered a new one
interactive_edited(i) ==
    /\ invs[i].kind = "interactive" /\ invs[i].pc = "edit"
    /\ IF persistNeeded(invs[i].authorInput, invs[i].cfg)
       THEN /\ stored' = invs[i].authorInput
            /\ Step(i, [invs[i] EXCEPT !.updated = TRUE, !.pc = "update"])
       ELSE /\ UNCHANGED stored
            /\ Step(i, returned(invs[i]))
    /\ UNCHANGED <<env, now, activeEditor, edits>>

interactive_updated(i) ==
    /\ invs[i].kind = "interactive" /\ invs[i].pc = "update"
    /\ Step(i, returned(invs[i]))
    /\ UNCHANGED <<stored, env, now, activeEditor, edits>>

(***************************************************************************)
(* autoInsertHeaderForDocument                                             *)
(***************************************************************************)

autoInsertHeaderForDocument(single, doc, outcome) ==
    /\ CanStart(single, 1)
    /\ LET r == Invocation("auto", doc, 0)
       IN  IF nonEmpty(text[doc])
           THEN Spawn(returned([r EXCEPT !.abort = IF hasHeaderAtTop(text[doc]) THEN "header" ELSE "nonempty"]))
           ELSE LET defaultAuthor == authorChain(stored, env.GIT_AUTHOR_NAME, env.USER)
                IN  Spawn(editCall([r EXCEPT !.cfg = stored,
                                             !.savedAuthor = defaultAuthor,
                                             !.toInsert = createdText(doc, <<>>, defaultAuthor)],
                                   outcome))
    /\ UNCHANGED <<stored, env, now, activeEditor, handlers, edits>>

auto_edited(i) ==
    /\ invs[i].kind = "auto" /\ invs[i].pc = "edit"
    /\ Step(i, returned(invs[i]))
    /\ UNCHANGED <<stored, env, now, activeEditor, edits>>

(***************************************************************************)
(* insertHeader of the legacy extension (src/extension.js)                 *)
(***************************************************************************)

legacy_insertHeader(single) ==
    /\ CanStart(single, 1)
    /\ LET r == Invocation("legacy", activeEditor, 0)
       IN  IF activeEditor = NoEditor
           THEN Spawn(returned([r EXCEPT !.msgs = {NoEditorMsg}, !.abort = "noeditor"]))
           ELSE Spawn([r EXCEPT !.savedAuthor = legacy_defaultAuthor(env.GIT_AUTHOR_NAME, env.USER),
                                !.prompts = 1,
                                !.pc = "author"])
    /\ UNCHANGED <<stored, env, now, activeEditor, handlers, edits>>

legacy_author(i, answer) ==
    /\ invs[i].kind = "legacy" /\ invs[i].pc = "author"
    /\ Step(i, [invs[i] EXCEPT !.authorInput = answer, !.prompts = @ + 1, !.pc = "description"])
    /\ UNCHANGED <<stored, env, now, activeEditor, edits>>

\* lines 61-108: the extension branch, then the insertion
legacy_finish(r, guard, outcome) ==
    editCall([r EXCEPT !.toInsert = @ \o extensionBody(extNoDotOf(r.doc), basenameOf(r.doc), guard)], outcome)

legacy_description(i, answer, outcome) ==
    /\ invs[i].kind = "legacy" /\ invs[i].pc = "description"
    /\ LET r == invs[i]
           extNoDot == extNoDotOf(r.doc)
           comment == legacy_makeCommentBlock(basenameWithExtOf(r.doc), answer, r.authorInput, formatDate(now))
           r1 == [r EXCEPT !.description = answer, !.toInsert = comment]
       IN  IF asksGuard(extNoDot)
           THEN Step(i, [r1 EXCEPT !.prompts = @ + 1, !.pc = "guard"])
           ELSE IF legacy_supported(extNoDot)
           THEN Step(i, legacy_finish(r1, Undefined, outcome))
           ELSE Step(i, returned([r1 EXCEPT !.msgs = @ \cup {UnsupportedMsg}, !.abort = "unsupported"]))
    /\ UNCHANGED <<stored, env, now, activeEditor, edits>>

legacy_guard(i, answer, outcome) ==
    /\ invs[i].kind = "legacy" /\ invs[i].pc = "guard"
    /\ Step(i, legacy_finish([invs[i] EXCEPT !.guard = answer], answer, outcome))
    /\ UNCHANGED <<stored, env, now, activeEditor, edits>>

legacy_edited(i) ==
    /\ invs[i].kind = "legacy" /\ invs[i].pc = "edit"
    /\ Step(i, returned([invs[i] EXCEPT !.msgs = @ \cup {InsertedMsg}]))
    /\ UNCHANGED <<stored, env, now, activeEditor, edits>>

(***************************************************************************)
(* The user                                                                *)
(***************************************************************************)

\* the user replaces the text of a document
userEdit(doc, newText) ==
    /\ edits < MaxUserEdits
    /\ newText /= text[doc]
    /\ text' = [text EXCEPT ![doc] = newText]
    /\ edits' = edits + 1
    /\ UNCHANGED <<stored, env, now, activeEditor, invs, handlers>>

(***************************************************************************)
(* Specifications                                                          *)
(***************************************************************************)

\* sequences of at most n files
Batches(files, n) == UNION {[1..k -> files] : k \in 0..n}

insertHeaderSteps(in) ==
    \/ \E i \in 1..Len(invs), a \in in.authors : insertHeader_author(i, a)
    \/ \E i \in 1..Len(invs), a \in in.descriptions, o \in Outcomes : insertHeader_description(i, a, o)
    \/ \E i \in 1..Len(invs), a \in in.guards, o \in Outcomes : insertHeader_guard(i, a, o)
    \/ \E i \in 1..Len(invs) : insertHeader_edited(i)
    \/ \E i \in 1..Len(invs) : insertHeader_updated(i)

createdFileSteps(in) ==
    \/ \E h \in 1..Len(handlers), o \in Outcomes : openTextDocument(h, o)
    \/ \E i \in 1..Len(invs), a \in in.authors : interactive_author(i, a)
    \/ \E i \in 1..Len(invs), a \in in.descriptions, o \in Outcomes : interactive_description(i, a, o)
    \/ \E i \in 1..Len(invs) : interactive_edited(i)
    \/ \E i \in 1..Len(invs) : interactive_updated(i)

legacySteps(in) ==
    \/ \E i \in 1..Len(invs), a \in in.authors : legacy_author(i, a)
    \/ \E i \in 1..Len(invs), a \in in.descriptions, o \in Outcomes : legacy_description(i, a, o)
    \/ \E i \in 1..Len(invs), a \in in.guards, o \in Outcomes : legacy_guard(i, a, o)
    \/ \E i \in 1..Len(invs) : legacy_edited(i)

\* Spec: the current extension as activate registers it (the command and the
\* onDidCreateFiles callback), with invocations overlapping at their awaits: a
\* command, a file-creation event or a user edit arrives while others are
\* suspended.  Two documents, which start empty.
Init ==
    /\ text = [f \in FewFiles |-> <<>>]
    /\ stored = <<"s">>
    /\ env = [GIT_AUTHOR_NAME |-> <<>>, USER |-> <<"u">>]
    /\ now \in OneDate
    /\ activeEditor \in FewFiles
    /\ invs = <<>>
    /\ handlers = <<>>
    /\ edits = 0

Next ==
    \/ insertHeader(FALSE)
    \/ insertHeaderSteps(FewAnswers)
    \/ \E files \in Batches(DOMAIN text, MaxBatch) : onDidCreateFiles(FALSE, files)
    \/ createdFileSteps(FewAnswers)
    \/ \E d \in DOMAIN text, t \in UserTexts : userEdit(d, t)

Spec == Init /\ [][Next]_vars

\* SingleSpec: one invocation of an entry point of the current extension
\* (autoInsertHeaderForDocument, which activate never calls, included), over
\* every document name, initial text, setting, environment and answer.
InitSingle ==
    /\ \E f \in AllFiles :
          /\ text \in [{f} -> UserTexts]
          /\ activeEditor \in {f, NoEditor}
    /\ stored \in StoredAuthors
    /\ env \in [GIT_AUTHOR_NAME : GitAuthors, USER : UserNames]
    /\ now \in AllDates
    /\ invs = <<>>
    /\ handlers = <<>>
    /\ edits = 0

NextSingle ==
    \/ insertHeader(TRUE)
    \/ insertHeaderSteps(AllAnswers)
    \/ \E files \in Batches(DOMAIN text, 1) : onDidCreateFiles(TRUE, files)
    \/ createdFileSteps(AllAnswers)
    \/ \E d \in DOMAIN text, o \in Outcomes : autoInsertHeaderForDocument(TRUE, d, o)
    \/ \E i \in 1..Len(invs) : auto_edited(i)

SingleSpec == InitSingle /\ [][NextSingle]_vars

\* LegacySpec: one invocation of the legacy extension's command.
NextLegacy ==
    \/ legacy_insertHeader(TRUE)
    \/ legacySteps(AllAnswers)

LegacySpec == InitSingle /\ [][NextLegacy]_vars

\* BatchSpec: file-creation events alone, each file processed interactively.
NextBatch ==
    \/ \E files \in Batches(DOMAIN text, MaxBatch) : onDidCreateFiles(FALSE, files)
    \/ createdFileSteps(FewAnswers)

InitBatch == Init /\ activeEditor = <<"/","w","/","g",".","h">>

BatchSpec == InitBatch /\ [][NextBatch]_vars

\* SeqSpec: the 'proheader.insertHeader' command invoked again and again on one
\* document, each invocation starting after the previous one has returned or
\* was rejected; every document name and initial text.
insertHeader_again ==
    /\ \A i \in 1..Len(invs) : invs[i].pc = "done"
    /\ insertHeader(FALSE)

InitSeq ==
    /\ \E f \in AllFiles :
          /\ text \in [{f} -> UserTexts]
          /\ activeEditor = f
    /\ stored = <<"s">>
    /\ env = [GIT_AUTHOR_NAME |-> <<>>, USER |-> <<"u">>]
    /\ now \in OneDate
    /\ invs = <<>>
    /\ handlers = <<>>
    /\ edits = 0

NextSeq ==
    \/ insertHeader_again
    \/ insertHeaderSteps(SeqAnswers)

SeqSpec == InitSeq /\ [][NextSeq]_vars

(***************************************************************************)
(* Properties                                                              *)
(***************************************************************************)

Invs == {invs[i] : i \in 1..Len(invs)}

\* the invocation has built the text it inserts
Built(r) == r.inserted \/ (r.pc = "done" /\ r.toInsert /= <<>>)

\* C1: an entry point invoked on a document whose first lines already match a
\* header signature applies no insertion, so the text stays as it was.
C1_HeaderedDocumentUnchanged == \A r \in Invs : r.entryHeader => ~r.inserted

\* C2: an entry point that aborts because the file already has a header shows
\* the informational notice before it returns, and never the success message.
C2_HeaderAbortIsReported ==
    \A r \in Invs : r.abort = "header" => HeaderExistsMsg \in r.msgs /\ InsertedMsg \notin r.msgs

\* C3: an exception thrown while the document is opened or the insertion is
\* applied is caught inside the entry point; none reaches the host.
C3_NoExceptionReachesHost == \A r \in Invs : r.result /= "rejected"

\* C4: on the interactive entry points a cancelled author prompt yields the
\* first non-empty of the stored setting, GIT_AUTHOR_NAME and USER as the
\* header's author (no Author line only when all three are empty), and a
\* cancelled include-guard prompt yields the default macro.
C4_CancelledPromptsUseDefaults ==
    \A r \in Invs :
        r.kind \in {"insertHeader", "interactive", "legacy"} /\ r.inserted =>
            /\ r.authorInput = Undefined =>
                 LET a == authorChain(stored, env.GIT_AUTHOR_NAME, env.USER)
                 IN  IF a /= <<>>
                     THEN Contains(r.toInsert, <<" ","A","u","t","h","o","r",":"," ">> \o a \o NL)
                     ELSE ~Contains(r.toInsert, <<"A","u","t","h","o","r",":">>)
            /\ r.guard = Undefined /\ extNoDotOf(r.doc) = <<"h">> =>
                 Contains(r.toInsert, <<"#","i","f","n","d","e","f"," ">> \o makeGuardMacro(basenameOf(r.doc), <<"H">>) \o NL)

\* C5: the text inserted into a file of extension 'py' begins with the line
\* '#!/usr/bin/env python3' immediately followed by the hash-prefixed border;
\* the text inserted into any other file has no line that starts with '#!'.
C5_ShebangFirstForPython ==
    \A r \in Invs :
        r.inserted =>
            IF extNoDotOf(r.doc) = <<"p","y">>
            THEN startsWith(r.toInsert,
                     <<"#","!","/","u","s","r","/","b","i","n","/","e","n","v"," ","p","y","t","h","o","n","3","\n","#"," ","=","=","=","=","=","=","=","=","=","=","=","=","=","=","=","=","=","=","=","=","=","=","=","=","=","=","=","=","=","=","=","=","=","=","=","=","=","=","=","=","=","=","=","=","=","=","\n","#">>)
            ELSE \A k \in 1..Len(split(r.toInsert)) : ~startsWith(split(r.toInsert)[k], <<"#","!">>)

C5_Witness ==
    \E r \in Invs : r.inserted /\ extNoDotOf(r.doc) = <<"p","y">> /\ r.pc = "done"

\* C6: for block style the current comment-block builder returns exactly the
\* string of the legacy builder (the README's format) on the same filename,
\* description, author and date.
C6_BuildersAgree ==
    \A r \in Invs :
        r.pc \notin {"start", "author", "description"} /\ r.abort \notin {"noeditor", "nonempty", "header"} =>
            LET author == Or(r.authorInput, r.savedAuthor)
            IN  makeCommentBlock(basenameWithExtOf(r.doc), r.description, author, formatDate(now), "block")
                = legacy_makeCommentBlock(basenameWithExtOf(r.doc), r.description, author, formatDate(now))

\* C7: the existing-header check comes before any prompt: an invocation that
\* aborts because a header exists has shown no input box.
C7_HeaderCheckBeforePrompts == \A r \in Invs : r.abort = "header" => r.prompts = 0

\* C8: whenever an entry point applies its insertion, the document at that
\* moment is empty or has no header signature, whatever ran while the
\* invocation was suspended.
C8_NoInsertionOverHeader == \A r \in Invs : r.inserted => ~r.overHeader

C10_FilesOneAtATimeInOrder ==
    \A h \in 1..Len(handlers) :
        LET hr == handlers[h]
            n == Len(hr.files)
        IN  /\ Len(hr.log) <= 2 * n
            /\ \A k \in 1..Len(hr.log) :
                   hr.log[k] = [ev |-> IF k % 2 = 1 THEN "begin" ELSE "end", i |-> (k + 1) \div 2]
            /\ hr.pc = "done" => Len(hr.log) = 2 * n
            /\ \A i \in 1..Len(invs) :
                   invs[i].handler = h /\ invs[i].pc /= "done" =>
                       /\ hr.pc = "run"
                       /\ invs[i].doc = hr.files[hr.idx]
                       /\ Len(hr.log) = 2 * hr.idx - 1
            /\ \A i, j \in 1..Len(invs) :
                   invs[i].handler = h /\ invs[j].handler = h /\ i < j => invs[i].pc = "done"

C10_Witness ==
    \E h \in 1..Len(handlers) :
        /\ handlers[h].pc = "done"
        /\ Len(handlers[h].files) = 2
        /\ handlers[h].failed = {1}
        /\ \E r \in Invs : r.handler = h /\ r.doc = handlers[h].files[2] /\ r.inserted


\* the top border of a built header: 46 '=' (the bottom border has 45)
TopBorder == <<"=","=","=","=","=","=","=","=","=","=","=","=","=","=","=","=","=","=","=","=","=","=","=","=","=","=","=","=","=","=","=","=","=","=","=","=","=","=","=","=","=","=","=","=","=","=">>

\* the lines of a text that hold the top border of a built header
headerLines(t) ==
    LET lines == split(t) IN {k \in 1..Len(lines) : Contains(lines[k], TopBorder)}

\* C11: insertHeader is idempotent when its invocations run one after another:
\* the text a successful invocation inserts, and the document after it, are
\* recognised by hasHeaderAtTop; no other invocation inserts, every later one
\* ends on the existing-header abort, and the document stays the inserted text
\* followed by its original text, with exactly one header in it.
C11_InsertionIsIdempotent ==
    \A i \in 1..Len(invs) :
        LET r == invs[i]
        IN  r.kind = "insertHeader" /\ r.inserted =>
                /\ hasHeaderAtTop(r.toInsert)
                /\ hasHeaderAtTop(text[r.doc])
                /\ \E t \in UserTexts : ~hasHeaderAtTop(t) /\ text[r.doc] = r.toInsert \o t
                /\ Cardinality(headerLines(text[r.doc])) = 1
                /\ \A j \in 1..Len(invs) :
                       j /= i =>
                           /\ ~invs[j].inserted
                           /\ j > i /\ invs[j].pc = "done" => invs[j].abort = "header"

C11_Witness ==
    \E i, j \in 1..Len(invs) :
        /\ i < j
        /\ invs[i].inserted /\ invs[i].pc = "done"
        /\ extNoDotOf(invs[i].doc) = <<"p","y">>
        /\ invs[j].pc = "done" /\ invs[j].abort = "header" /\ invs[j].guard = Undefined
        /\ Truthy(invs[j].authorInput)

\* the file's name without its extension, whatever the extension's letter case
baseNameNoExtension(filePath) ==
    LET b == basenameWithExtOf(filePath) IN SubSeq(b, 1, Len(b) - Len(extOf(filePath)))

\* C12: the base name an entry point derives is the file's name without its
\* extension, whatever the extension's letter case, and the inserted text is
\* built from it: the default guard macro of a 'h' or 'hpp' file, the class
\* name of a 'hpp' file, and the include line and class name of a 'cpp' file
\* (Game.HPP yields GAME_HPP_ and class Game, as Game.hpp does).
C12_BaseNameWithoutExtension ==
    \A r \in Invs :
        r.inserted =>
            LET extNoDot == extNoDotOf(r.doc)
                base == baseNameNoExtension(r.doc)
            IN  /\ basenameOf(r.doc) = base
                /\ extNoDot = <<"h">> /\ r.guard = Undefined =>
                       Contains(r.toInsert, <<"#","i","f","n","d","e","f"," ">> \o makeGuardMacro(base, <<"H">>) \o NL)
                /\ extNoDot = <<"h","p","p">> =>
                       /\ r.guard = Undefined =>
                              Contains(r.toInsert, <<"#","i","f","n","d","e","f"," ">> \o makeGuardMacro(base, <<"H","P","P">>) \o NL)
                       /\ Contains(r.toInsert, <<"c","l","a","s","s"," ">> \o toClassName(base) \o <<" ","{">>)
                /\ extNoDot = <<"c","p","p">> =>
                       /\ Contains(r.toInsert, <<"#","i","n","c","l","u","d","e"," ","\"">> \o base \o <<".","h","p","p","\"","\n">>)
                       /\ Contains(r.toInsert, NL \o toClassName(base) \o <<":",":">> \o toClassName(base) \o <<"(",")">>)
====
